---- MODULE Spec2Model ----
(***************************************************************************)
(* Model of gh_notifs.py: the PR / Notification objects, the two           *)
(* formatters, the GitHub API helpers and the amain pipeline.              *)
(*                                                                         *)
(* The module holds five specifications over one set of variables.  Each   *)
(* specification drives one part of the program and leaves the variables   *)
(* of the other parts at their idle value:                                 *)
(*   SpecPR    - PR.from_json, PR.status, PR.merge_status, status markers  *)
(*   SpecUrl   - Notification.url (the referrer token)                     *)
(*   SpecRev   - the requested-reviewer lists of both formatters           *)
(*   SpecPages - _gh_api(paginate=True)                                    *)
(*   SpecRun   - amain: viewer fetch, list fetch, gather, format, print    *)
(***************************************************************************)
EXTENDS Integers, Sequences, FiniteSets, TLC

VARIABLES
    \* ---- SpecPR
    data,           \* the PR payload handed to PR.from_json
    pr,             \* the PR value built by PR.from_json
    statusRes,      \* result of evaluating pr.status
    mergeRes,       \* result of evaluating pr.merge_status
    consoleStatus,  \* `status` of ConsoleFormatter._format_notification
    htmlIcons,      \* list(HtmlFormatter._icons(notif))
    \* ---- SpecUrl
    notifA,         \* a Notification: its id, its user's id, its PR's html_url
    notifB,         \* a second Notification
    urlA,           \* notifA.url
    urlB,           \* notifB.url
    \* ---- SpecRev
    reviewers,      \* notif.pr.requested_reviewers
    user,           \* notif.user: login and teams
    consoleReviewers,   \* `reviewers` at the end of _format_notification
    htmlReviewers,  \* list(HtmlFormatter._reviewer_list_items(notif))
    \* ---- SpecPages
    proc,           \* the `gh api --paginate` child: return code and pages
    apiResult,      \* what _gh_api returned or raised
    \* ---- SpecRun
    pc,             \* where the run is
    upstream,       \* what GitHub holds: the viewer's organisations and the
                    \* notification list
    orgsLeft,       \* organisations whose teams _gh_user has still to fetch
    tasks,          \* the tasks of asyncio.gather, by position
    completed,      \* positions of the tasks that returned, in completion order
    fetchLog,       \* PR urls a child was spawned for, in spawn order
    rcLog,          \* return codes of the children that ended
    formatted,      \* the argument of formatter.format
    printed,        \* printer.print was called
    exitStatus      \* exit status of the process

varsPR == <<data, pr, statusRes, mergeRes, consoleStatus, htmlIcons>>

varsUrl == <<notifA, notifB, urlA, urlB>>

varsRev == <<reviewers, user, consoleReviewers, htmlReviewers>>

varsPages == <<proc, apiResult>>

varsRun ==
    <<pc, upstream, orgsLeft, tasks, completed, fetchLog, rcLog, formatted,
      printed, exitStatus>>

vars == <<varsPR, varsUrl, varsRev, varsPages, varsRun>>

\* value of a string variable that holds nothing (yet)
None == "None"

\* an object variable holds <<>> (nothing yet) or <<object>>
NoObj == <<>>
Obj(x) == <<x>>

\* result of an evaluation that raised ValueError
ValueError == "ValueError"

(***************************************************************************)
(* Idle values: what a specification leaves the variables of the other     *)
(* parts at                                                                *)
(***************************************************************************)

IdlePR ==
    /\ data = NoObj
    /\ pr = NoObj
    /\ statusRes = None
    /\ mergeRes = None
    /\ consoleStatus = None
    /\ htmlIcons = NoObj

IdleUrl ==
    /\ notifA = NoObj
    /\ notifB = NoObj
    /\ urlA = NoObj
    /\ urlB = NoObj

IdleRev ==
    /\ reviewers = NoObj
    /\ user = NoObj
    /\ consoleReviewers = NoObj
    /\ htmlReviewers = NoObj

IdlePages ==
    /\ proc = NoObj
    /\ apiResult = NoObj

IdleRun ==
    /\ pc = None
    /\ upstream = NoObj
    /\ orgsLeft = 0
    /\ tasks = <<>>
    /\ completed = <<>>
    /\ fetchLog = <<>>
    /\ rcLog = <<>>
    /\ formatted = NoObj
    /\ printed = FALSE
    /\ exitStatus = -1

(***************************************************************************)
(* Objects                                                                 *)
(***************************************************************************)

\* class PRStatus(Enum)
PRStatus == {"DRAFT", "OPEN", "MERGED", "CLOSED"}

\* class PRMergeStatus(Enum)
PRMergeStatus == {"CLEAN", "AUTO_MERGE", "UNKNOWN"}

\* PR.status with a default in place of the raise
PRstatus_defaulting(p) ==
    IF p.state = "open"
    THEN IF p.draft THEN "DRAFT" ELSE "OPEN"
    ELSE IF p.merged THEN "MERGED" ELSE "CLOSED"

\* PR.status
PRstatus(p) ==
    IF p.state = "open"
    THEN IF p.draft THEN "DRAFT" ELSE "OPEN"
    ELSE IF p.state = "closed"
         THEN IF p.merged THEN "MERGED" ELSE "CLOSED"
         ELSE ValueError

\* the set literal tested by the third branch of PR.merge_status
UnknownMergeableStates == {"behind", "blocked", "dirty", "unknown", "unstable"}

\* PR.merge_status with the auto-merge test ahead of the clean test
PRmerge_status_auto_first(p) ==
    IF p.auto_merge THEN "AUTO_MERGE"
    ELSE IF p.mergeable_state = "clean" THEN "CLEAN"
    ELSE IF p.mergeable_state \in UnknownMergeableStates THEN "UNKNOWN"
    ELSE ValueError

\* PR.merge_status
PRmerge_status(p) ==
    IF p.mergeable_state = "clean" THEN "CLEAN"
    ELSE IF p.auto_merge THEN "AUTO_MERGE"
    ELSE IF p.mergeable_state \in UnknownMergeableStates THEN "UNKNOWN"
    ELSE ValueError

\* bool(data["auto_merge"]): the payload carries null or an object
Bool(v) == v # "null"

\* PR.from_json, restricted to the fields the classifications and the
\* markers read
PRfrom_json(d) ==
    [ author          |-> d.user_login,
      state           |-> d.state,
      draft           |-> d.draft,
      merged          |-> d.merged,
      mergeable_state |-> d.mergeable_state,
      auto_merge      |-> Bool(d.auto_merge) ]

(***************************************************************************)
(* Formatting: status markers                                              *)
(***************************************************************************)

\* login of the viewer in SpecPR
ViewerLogin == "me"

ConsoleCheck  == "ESC[92m U+F00C ESC[0m "
ConsoleFF     == "U+23E9"
ConsoleNone   == ""
ConsoleDraft  == "ESC[39;2m"
ConsoleMerged == "ESC[35m[M]ESC[39;2m"
ConsoleClosed == "ESC[31m[C]ESC[39;2m"

\* the status part of ConsoleFormatter._format_notification
ConsoleFormatStatus(p) ==
    LET st == PRstatus(p) IN
    IF st = ValueError THEN ValueError
    ELSE IF st = "OPEN"
    THEN LET ms == PRmerge_status(p) IN
         IF ms = ValueError THEN ValueError
         ELSE IF ms = "CLEAN" THEN ConsoleCheck
         ELSE IF ms = "AUTO_MERGE" THEN ConsoleFF
         ELSE ConsoleNone
    ELSE IF st = "DRAFT" THEN ConsoleDraft
    ELSE IF st = "MERGED" THEN ConsoleMerged
    ELSE IF st = "CLOSED" THEN ConsoleClosed
    ELSE ValueError

HtmlCheck  == "bi-check-circle-fill"
HtmlFF     == "bi-fast-forward-circle"
HtmlDraft  == "bi-pencil"
HtmlClosed == "bi-x-circle"
HtmlMerged == "bi-sign-merge-right"
HtmlAuthor == "bi-person-circle"

\* HtmlFormatter._icons with the closed icon also yielded for merged PRs
HtmlIconsOf_closed_and_merged(p, login) ==
    LET st == PRstatus(p)
        statusIcons ==
            IF st = "OPEN"
            THEN LET ms == PRmerge_status(p) IN
                 (IF ms = "CLEAN" THEN <<HtmlCheck>> ELSE <<>>)
                 \o (IF ms = "AUTO_MERGE" THEN <<HtmlFF>> ELSE <<>>)
            ELSE IF st = "DRAFT" THEN <<HtmlDraft>>
            ELSE (IF st \in {"CLOSED", "MERGED"} THEN <<HtmlClosed>> ELSE <<>>)
                 \o (IF st = "MERGED" THEN <<HtmlMerged>> ELSE <<>>)
        authorIcon == IF p.author = login THEN <<HtmlAuthor>> ELSE <<>>
    IN  IF st = ValueError \/ (st = "OPEN" /\ PRmerge_status(p) = ValueError)
        THEN [raised |-> TRUE, icons |-> <<>>]
        ELSE [raised |-> FALSE, icons |-> statusIcons \o authorIcon]

\* HtmlFormatter._icons, as the list of the icons it yields (raised: the
\* generator raised ValueError instead)
HtmlIconsOf(p, login) ==
    LET st == PRstatus(p)
        statusIcons ==
            IF st = "OPEN"
            THEN LET ms == PRmerge_status(p) IN
                 (IF ms = "CLEAN" THEN <<HtmlCheck>> ELSE <<>>)
                 \o (IF ms = "AUTO_MERGE" THEN <<HtmlFF>> ELSE <<>>)
            ELSE IF st = "DRAFT" THEN <<HtmlDraft>>
            ELSE IF st = "CLOSED" THEN <<HtmlClosed>>
            ELSE IF st = "MERGED" THEN <<HtmlMerged>>
            ELSE <<>>
        authorIcon == IF p.author = login THEN <<HtmlAuthor>> ELSE <<>>
    IN  IF st = ValueError \/ (st = "OPEN" /\ PRmerge_status(p) = ValueError)
        THEN [raised |-> TRUE, icons |-> <<>>]
        ELSE [raised |-> FALSE, icons |-> statusIcons \o authorIcon]

(***************************************************************************)
(* Notification.url                                                        *)
(*                                                                         *)
(* A str is a sequence of code points, a bytes value a sequence of         *)
(* integers 0..255, a base64 text a sequence of one-character strings.     *)
(***************************************************************************)

\* prefix = b"\x93\x00\xce\x00s3\xa2\xb2"
Prefix == <<147, 0, 206, 0, 115, 51, 162, 178>>

Colon == 58

\* f"{self.id}:{self.user.id}" without the separator
JoinIds_no_separator(id, uid) == id \o uid

\* f"{self.id}:{self.user.id}"
JoinIds(id, uid) == id \o <<Colon>> \o uid

\* UTF-8 encoding of one code point (up to U+FFFF)
Utf8(cp) ==
    IF cp < 128 THEN <<cp>>
    ELSE IF cp < 2048 THEN <<192 + (cp \div 64), 128 + (cp % 64)>>
    ELSE <<224 + (cp \div 4096), 128 + ((cp \div 64) % 64), 128 + (cp % 64)>>

RECURSIVE Encode(_)
\* str.encode()
Encode(str) ==
    IF str = <<>> THEN <<>> ELSE Utf8(Head(str)) \o Encode(Tail(str))

\* the standard base64 alphabet
B64Alphabet ==
    << "A","B","C","D","E","F","G","H","I","J","K","L","M",
       "N","O","P","Q","R","S","T","U","V","W","X","Y","Z",
       "a","b","c","d","e","f","g","h","i","j","k","l","m",
       "n","o","p","q","r","s","t","u","v","w","x","y","z",
       "0","1","2","3","4","5","6","7","8","9","+","/" >>

B64Char(sextet) == B64Alphabet[sextet + 1]

RECURSIVE standard_b64encode(_)
\* base64.standard_b64encode
standard_b64encode(b) ==
    IF Len(b) = 0 THEN <<>>
    ELSE IF Len(b) = 1
    THEN << B64Char(b[1] \div 4), B64Char((b[1] % 4) * 16), "=", "=" >>
    ELSE IF Len(b) = 2
    THEN << B64Char(b[1] \div 4),
            B64Char((b[1] % 4) * 16 + (b[2] \div 16)),
            B64Char((b[2] % 16) * 4), "=" >>
    ELSE << B64Char(b[1] \div 4),
            B64Char((b[1] % 4) * 16 + (b[2] \div 16)),
            B64Char((b[2] % 16) * 4 + (b[3] \div 64)),
            B64Char(b[3] % 64) >>
         \o standard_b64encode(SubSeq(b, 4, Len(b)))

RECURSIVE rstrip(_, _)
\* str.rstrip(c)
rstrip(text, c) ==
    IF text # <<>> /\ text[Len(text)] = c
    THEN rstrip(SubSeq(text, 1, Len(text) - 1), c)
    ELSE text

\* the token of Notification.url
Token(n) ==
    rstrip(standard_b64encode(Prefix \o Encode(JoinIds(n.id, n.user_id))), "=")

\* Notification.url
NotificationUrl(n) ==
    <<n.html_url, "?notification_referrer_id=", "N", "T", "_">> \o Token(n)

(***************************************************************************)
(* SpecUrl: the url of two notifications is derived                        *)
(***************************************************************************)

\* code points the ids are made of: "1", ":" and U+00E9
IdChars == {49, Colon, 233}

\* bound on the characters of a notification id and a user id together
MaxIdChars == 3

StrsUpTo(n) == UNION { [1..k -> IdChars] : k \in 0..n }

IdPairs ==
    { p \in StrsUpTo(MaxIdChars) \X StrsUpTo(MaxIdChars) :
          Len(p[1]) + Len(p[2]) <= MaxIdChars }

Notifs ==
    { [id |-> p[1], user_id |-> p[2], html_url |-> "https://github.com/o/r/pull/1"] :
          p \in IdPairs }

InitUrlVars ==
    /\ notifA \in Notifs
    /\ notifB \in Notifs
    /\ urlA = NoObj
    /\ urlB = NoObj

\* evaluation of the property notifA.url
UrlA ==
    /\ urlA = NoObj
    /\ urlA' = Obj(NotificationUrl(notifA))
    /\ UNCHANGED <<notifA, notifB, urlB, varsPR, varsRev, varsPages, varsRun>>

\* evaluation of the property notifB.url
UrlB ==
    /\ urlB = NoObj
    /\ urlB' = Obj(NotificationUrl(notifB))
    /\ UNCHANGED <<notifA, notifB, urlA, varsPR, varsRev, varsPages, varsRun>>

InitUrl == InitUrlVars /\ IdlePR /\ IdleRev /\ IdlePages /\ IdleRun

NextUrl == UrlA \/ UrlB

SpecUrl == InitUrl /\ [][NextUrl]_vars

(***************************************************************************)
(* Properties of SpecUrl                                                   *)
(***************************************************************************)

HasColon(str) == \E i \in 1..Len(str) : str[i] = Colon

BothUrls == urlA # NoObj /\ urlB # NoObj

SameIds == notifA.id = notifB.id /\ notifA.user_id = notifB.user_id

\* C7 (as stated): equal (notification id, user id) pairs give equal tokens,
\* and for all string ids two different pairs never give the same token.
C7_TokenInjective ==
    BothUrls => (urlA = urlB <=> SameIds)

\* C7 (amended): equal pairs give equal tokens, and two different pairs
\* give different tokens whenever neither notification id contains ":" or
\* neither user id contains ":".
C7_TokenInjectiveWithoutColon ==
    BothUrls =>
        /\ SameIds => urlA = urlB
        /\ (~HasColon(notifA.id) /\ ~HasColon(notifB.id) /\ urlA = urlB)
               => SameIds
        /\ (~HasColon(notifA.user_id) /\ ~HasColon(notifB.user_id) /\ urlA = urlB)
               => SameIds

C7_Witness ==
    /\ BothUrls
    /\ notifA.id = <<49, 49>> /\ notifA.user_id = <<49>>
    /\ notifB.id = <<49>> /\ notifB.user_id = <<49, 49>>
    /\ urlA # urlB

(***************************************************************************)
(* Formatting: requested reviewers                                         *)
(*                                                                         *)
(* A login or team name is a sequence of one-character strings; a          *)
(* formatted text is a sequence of its pieces.                             *)
(***************************************************************************)

\* index of the first "/" of str, 0 when there is none
FirstSlash(str) ==
    IF \E i \in 1..Len(str) : str[i] = "/"
    THEN CHOOSE i \in 1..Len(str) :
             str[i] = "/" /\ \A j \in 1..(i - 1) : str[j] # "/"
    ELSE 0

\* index of the last "/" of str, 0 when there is none
LastSlash(str) ==
    IF \E i \in 1..Len(str) : str[i] = "/"
    THEN CHOOSE i \in 1..Len(str) :
             str[i] = "/" /\ \A j \in (i + 1)..Len(str) : str[j] # "/"
    ELSE 0

\* str.partition("/")[2]
PartitionSlug(str) ==
    IF FirstSlash(str) = 0 THEN <<>>
    ELSE SubSeq(str, FirstSlash(str) + 1, Len(str))

\* str.rpartition("/")[2]
RPartitionSlug(str) ==
    IF LastSlash(str) = 0 THEN str
    ELSE SubSeq(str, LastSlash(str) + 1, Len(str))

ConsoleSelfOn  == "ESC[33m"
ConsoleSelfOff == "ESC[39m"
OthersSuffix   == " others"

RECURSIVE ConsoleReviewerLoop(_, _, _, _)
\* the for loop of _format_notification over requested_reviewers; acc is
\* (reviewers, n_other_reviewers)
ConsoleReviewerLoop(rest, login, teams, acc) ==
    IF rest = <<>> THEN acc
    ELSE LET reviewer == Head(rest) IN
         ConsoleReviewerLoop(Tail(rest), login, teams,
            IF reviewer = login
            THEN [acc EXCEPT !.reviewers =
                     Append(@, <<ConsoleSelfOn>> \o reviewer \o <<ConsoleSelfOff>>)]
            ELSE IF reviewer \in teams
            THEN [acc EXCEPT !.reviewers = Append(@, PartitionSlug(reviewer))]
            ELSE [acc EXCEPT !.n_other_reviewers = @ + 1])

\* the reviewer list with the "N others" entry appended only from 2 others on
ConsoleReviewersOf_more_than_one(requested, login, teams) ==
    LET acc == ConsoleReviewerLoop(requested, login, teams,
                   [reviewers |-> <<>>, n_other_reviewers |-> 0])
    IN  IF acc.n_other_reviewers > 1
        THEN Append(acc.reviewers, <<acc.n_other_reviewers, OthersSuffix>>)
        ELSE acc.reviewers

\* `reviewers` of ConsoleFormatter._format_notification before the join
ConsoleReviewersOf(requested, login, teams) ==
    LET acc == ConsoleReviewerLoop(requested, login, teams,
                   [reviewers |-> <<>>, n_other_reviewers |-> 0])
    IN  IF acc.n_other_reviewers # 0
        THEN Append(acc.reviewers, <<acc.n_other_reviewers, OthersSuffix>>)
        ELSE acc.reviewers

HtmlSelfClass   == "list-group-item list-group-item-warning"
HtmlTeamClass   == "list-group-item"
HtmlOthersClass == "list-group-item list-group-item-light"

RECURSIVE HtmlReviewerLoop(_, _, _, _)
\* the for loop of _reviewer_list_items; acc is (the items yielded, others)
HtmlReviewerLoop(rest, login, teams, acc) ==
    IF rest = <<>> THEN acc
    ELSE LET reviewer == Head(rest) IN
         HtmlReviewerLoop(Tail(rest), login, teams,
            IF reviewer = login
            THEN [acc EXCEPT !.yielded =
                     Append(@, [class |-> HtmlSelfClass, body |-> reviewer,
                                title |-> <<>>])]
            ELSE IF reviewer \in teams
            THEN [acc EXCEPT !.yielded =
                     Append(@, [class |-> HtmlTeamClass,
                                body |-> PartitionSlug(reviewer),
                                title |-> <<>>])]
            ELSE [acc EXCEPT !.others = Append(@, RPartitionSlug(reviewer))])

\* HtmlFormatter._reviewer_list_items, as the list of the items it yields
HtmlReviewerListItems(requested, login, teams) ==
    LET acc == HtmlReviewerLoop(requested, login, teams,
                   [yielded |-> <<>>, others |-> <<>>])
    IN  IF acc.others # <<>>
        THEN Append(acc.yielded,
                    [class |-> HtmlOthersClass,
                     body |-> <<Len(acc.others), OthersSuffix>>,
                     title |-> acc.others])
        ELSE acc.yielded

(***************************************************************************)
(* SpecRev: both formatters build the reviewer list of one notification    *)
(***************************************************************************)

\* bound on the length of requested_reviewers
MaxReviewers == 3

\* who can be asked for a review: two users and three teams
Candidates ==
    { <<"m">>, <<"b">>, <<"o", "/", "a">>, <<"o", "/", "b">>, <<"p", "/", "a">> }

Logins == { <<"m">>, <<"b">> }

TeamSets == SUBSET { <<"o", "/", "a">>, <<"o", "/", "b">> }

InitRevVars ==
    /\ reviewers \in UNION { [1..k -> Candidates] : k \in 0..MaxReviewers }
    /\ user \in [login : Logins, teams : TeamSets]
    /\ consoleReviewers = NoObj
    /\ htmlReviewers = NoObj

\* ConsoleFormatter._format_notification, reviewer part
ConsoleReviewers ==
    /\ consoleReviewers = NoObj
    /\ consoleReviewers' =
           Obj(ConsoleReviewersOf(reviewers, user.login, user.teams))
    /\ UNCHANGED <<reviewers, user, htmlReviewers, varsPR, varsUrl, varsPages, varsRun>>

\* HtmlFormatter._reviewer_list_items
HtmlReviewers ==
    /\ htmlReviewers = NoObj
    /\ htmlReviewers' =
           Obj(HtmlReviewerListItems(reviewers, user.login, user.teams))
    /\ UNCHANGED <<reviewers, user, consoleReviewers, varsPR, varsUrl, varsPages, varsRun>>

InitRev == InitRevVars /\ IdlePR /\ IdleUrl /\ IdlePages /\ IdleRun

NextRev == ConsoleReviewers \/ HtmlReviewers

SpecRev == InitRev /\ [][NextRev]_vars

(***************************************************************************)
(* Properties of SpecRev                                                   *)
(***************************************************************************)

IsSelf(r)  == r = user.login
IsTeam(r)  == r # user.login /\ r \in user.teams
IsOther(r) == r # user.login /\ r \notin user.teams
IsNamed(r) == ~IsOther(r)

\* the number of requested reviewers classified other
NOthers == Len(SelectSeq(reviewers, IsOther))

\* the requested reviewers rendered one by one, in encounter order
Named == SelectSeq(reviewers, IsNamed)

IsConsoleOthers(e) == e # <<>> /\ e[Len(e)] = OthersSuffix
IsConsoleSelf(e)   == e # <<>> /\ e[1] = ConsoleSelfOn

\* the console list: one entry per self or team reviewer in encounter order
\* (a team by what follows its one-letter organisation and the "/"), then
\* "N others" exactly when N > 0
ConsoleListCorrect(out) ==
    /\ Len(out) = Len(Named) + (IF NOthers > 0 THEN 1 ELSE 0)
    /\ \A i \in 1..Len(Named) :
           /\ ~IsConsoleOthers(out[i])
           /\ IsSelf(Named[i]) =>
                  out[i] = <<ConsoleSelfOn>> \o Named[i] \o <<ConsoleSelfOff>>
           /\ IsTeam(Named[i]) =>
                  /\ ~IsConsoleSelf(out[i])
                  /\ out[i] = SubSeq(Named[i], 3, Len(Named[i]))
    /\ NOthers > 0 => out[Len(out)] = <<NOthers, OthersSuffix>>
    /\ Len(Named) + NOthers = Len(reviewers)

\* the HTML list: the same, by the class of the items
HtmlListCorrect(out) ==
    /\ Len(out) = Len(Named) + (IF NOthers > 0 THEN 1 ELSE 0)
    /\ \A i \in 1..Len(Named) :
           /\ IsSelf(Named[i]) =>
                  out[i].class = HtmlSelfClass /\ out[i].body = Named[i]
           /\ IsTeam(Named[i]) =>
                  /\ out[i].class = HtmlTeamClass
                  /\ out[i].body = SubSeq(Named[i], 3, Len(Named[i]))
    /\ NOthers > 0 =>
           /\ out[Len(out)].class = HtmlOthersClass
           /\ out[Len(out)].body = <<NOthers, OthersSuffix>>
           /\ Len(out[Len(out)].title) = NOthers
    /\ Len(Named) + NOthers = Len(reviewers)

\* C8: both formatters put every requested reviewer in exactly one of self,
\* own-team and other; the entries rendered one by one plus the N of
\* "N others" make the length of the list; "N others" is there exactly when
\* N > 0, counts the others, and comes after the self and team entries,
\* which keep their encounter order.
C8_ReviewerPartition ==
    /\ consoleReviewers # NoObj => ConsoleListCorrect(consoleReviewers[1])
    /\ htmlReviewers # NoObj => HtmlListCorrect(htmlReviewers[1])

C8_Witness ==
    /\ consoleReviewers # NoObj
    /\ htmlReviewers # NoObj
    /\ reviewers = << <<"b">>, <<"o", "/", "a">>, <<"m">> >>
    /\ user = [login |-> <<"m">>, teams |-> { <<"o", "/", "a">> }]
    /\ Len(consoleReviewers[1]) = 3
    /\ Len(htmlReviewers[1]) = 3

(***************************************************************************)
(* GitHub API: _gh_api                                                     *)
(*                                                                         *)
(* A JSON text is a sequence of one-character strings.  An item of a page  *)
(* is held as the JSON string of its text.                                 *)
(***************************************************************************)

Quote == "\""

\* the JSON text of one item
DumpItem(item) == <<Quote>> \o item \o <<Quote>>

RECURSIVE DumpItems(_)
DumpItems(items) ==
    IF items = <<>> THEN <<>>
    ELSE IF Len(items) = 1 THEN DumpItem(items[1])
    ELSE DumpItem(items[1]) \o <<",">> \o DumpItems(Tail(items))

\* the JSON array `gh api` prints for one page
DumpPage(page) == <<"[">> \o DumpItems(page) \o <<"]">>

RECURSIVE Stdout(_)
\* the output of `gh api --paginate`: the pages, one after another
Stdout(pages) ==
    IF pages = <<>> THEN <<>> ELSE DumpPage(Head(pages)) \o Stdout(Tail(pages))

RECURSIVE ReplacePageJoin(_)
\* data.replace("][", ",")
ReplacePageJoin(text) ==
    IF Len(text) < 2 THEN text
    ELSE IF text[1] = "]" /\ text[2] = "["
    THEN <<",">> \o ReplacePageJoin(SubSeq(text, 3, Len(text)))
    ELSE <<text[1]>> \o ReplacePageJoin(Tail(text))

\* index of the first quote of text at or after i, 0 when there is none
NextQuote(text, i) ==
    IF \E j \in i..Len(text) : text[j] = Quote
    THEN CHOOSE j \in i..Len(text) :
             text[j] = Quote /\ \A k \in i..(j - 1) : text[k] # Quote
    ELSE 0

JSONDecodeError == [ok |-> FALSE, value |-> <<>>]

RECURSIVE LoadsElements(_, _, _)
\* json.loads inside an array: a string is expected at i
LoadsElements(text, i, acc) ==
    IF i > Len(text) \/ text[i] # Quote THEN JSONDecodeError
    ELSE LET j == NextQuote(text, i + 1) IN
         IF j = 0 \/ j + 1 > Len(text) THEN JSONDecodeError
         ELSE LET items == Append(acc, SubSeq(text, i + 1, j - 1)) IN
              IF text[j + 1] = ","
              THEN LoadsElements(text, j + 2, items)
              ELSE IF text[j + 1] = "]" /\ j + 1 = Len(text)
              THEN [ok |-> TRUE, value |-> items]
              ELSE JSONDecodeError

\* json.loads of a text that should be one array of strings
Loads(text) ==
    IF Len(text) < 2 \/ text[1] # "[" THEN JSONDecodeError
    ELSE IF text[2] = "]"
    THEN IF Len(text) = 2 THEN [ok |-> TRUE, value |-> <<>>]
         ELSE JSONDecodeError
    ELSE LoadsElements(text, 2, <<>>)

\* _gh_api(..., paginate=True) on a child that returned p.returncode and
\* printed p.pages
GhApiPaginate(p) ==
    IF p.returncode # 0
    THEN [raised |-> "SystemExit", code |-> p.returncode, value |-> <<>>]
    ELSE LET loaded == Loads(ReplacePageJoin(Stdout(p.pages))) IN
         IF loaded.ok
         THEN [raised |-> "", code |-> 0, value |-> loaded.value]
         ELSE [raised |-> "JSONDecodeError", code |-> 0, value |-> <<>>]

(***************************************************************************)
(* SpecPages: one paginated fetch                                          *)
(***************************************************************************)

\* bound on the number of pages the child prints
MaxPages == 3

\* bound on the number of items of all pages together
MaxItems == 2

\* bound on the length of the text of an item
MaxItemLen == 2

ItemChars == {"a", "[", "]"}

Items == UNION { [1..k -> ItemChars] : k \in 0..MaxItemLen }

ItemLists == UNION { [1..k -> Items] : k \in 0..MaxItems }

\* the sizes of the pages
PageSizes == UNION { [1..p -> 0..MaxItems] : p \in 1..MaxPages }

RECURSIVE SumSeq(_)
SumSeq(q) == IF q = <<>> THEN 0 ELSE Head(q) + SumSeq(Tail(q))

RECURSIVE SplitPages(_, _)
\* the item list cut into pages of the given sizes
SplitPages(items, sizes) ==
    IF sizes = <<>> THEN <<>>
    ELSE <<SubSeq(items, 1, Head(sizes))>>
         \o SplitPages(SubSeq(items, Head(sizes) + 1, Len(items)), Tail(sizes))

ReturnCodes == {0, 1}

InitPagesVars ==
    /\ \E items \in ItemLists, sizes \in PageSizes, rc \in ReturnCodes :
           /\ SumSeq(sizes) = Len(items)
           /\ proc = [returncode |-> rc, pages |-> SplitPages(items, sizes)]
    /\ apiResult = NoObj

\* _gh_api("notifications", paginate=True)
GhApi ==
    /\ apiResult = NoObj
    /\ apiResult' = Obj(GhApiPaginate(proc))
    /\ UNCHANGED <<proc, varsPR, varsUrl, varsRev, varsRun>>

InitPages == InitPagesVars /\ IdlePR /\ IdleUrl /\ IdleRev /\ IdleRun

NextPages == GhApi

SpecPages == InitPages /\ [][NextPages]_vars

(***************************************************************************)
(* Properties of SpecPages                                                 *)
(***************************************************************************)

RECURSIVE Flatten(_)
\* all items of all pages, in page order
Flatten(pages) ==
    IF pages = <<>> THEN <<>> ELSE Head(pages) \o Flatten(Tail(pages))

\* C10: when the child succeeds, _gh_api with paginate=True returns the list
\* of all items of all pages, in page order, each item unchanged.
C10_PagesJoinedUnchanged ==
    (apiResult # NoObj /\ proc.returncode = 0) =>
        /\ apiResult[1].raised = ""
        /\ apiResult[1].value = Flatten(proc.pages)

(***************************************************************************)
(* Application: amain                                                      *)
(***************************************************************************)

\* a child counts as failed only for a positive return code
Failed_only_positive(returncode) == returncode > 0

\* `if await proc.wait():` of _gh_api_async, and the CalledProcessError that
\* subprocess.check_output raises in _gh_api
Failed(returncode) == returncode # 0

\* exit status of a process that ends by SystemExit(returncode)
SystemExit(returncode) == returncode % 256

PullRequestType == "PullRequest"

IsPullRequest(n) == n.subject_type = PullRequestType

\* the generator notifs_data of amain
NotifsData(list) == SelectSeq(list, IsPullRequest)

\* _gh_notif: Notification(id, user, pr), the PR being the one behind pr_url
Notification(id, pr_url) == [id |-> id, user |-> "viewer", pr |-> [url |-> pr_url]]

\* the tasks asyncio.gather makes of the coroutines, in argument order
GatherTasks(list) ==
    [ i \in 1..Len(NotifsData(list)) |->
        [ id     |-> NotifsData(list)[i].id,
          pr_url |-> NotifsData(list)[i].subject_url,
          state  |-> "pending",
          result |-> NoObj ] ]

\* the results collected in the order the tasks completed
GatherResults_completion_order(ts, order) ==
    [ k \in 1..Len(order) |-> ts[order[k]].result[1] ]

\* the list asyncio.gather returns: the results by position of the argument
GatherResults(ts, order) ==
    [ i \in 1..Len(ts) |-> ts[i].result[1] ]

(***************************************************************************)
(* SpecRun: one run of amain                                               *)
(***************************************************************************)

\* bound on the length of the notification list
MaxNotifs == 3

\* bound on the number of organisations of the viewer
MaxOrgs == 1

\* return codes of a failing child: gh's 1 and 4, and a kill by SIGKILL
FailCodes == {1, 4, -9}

ReturnCodesOfChild == {0} \cup FailCodes

SubjectTypes == {PullRequestType, "Issue"}

\* notification lists: item i has id i and the subject url i
NotificationLists ==
    UNION { { [ i \in 1..k |->
                  [id |-> i, subject_type |-> ty[i], subject_url |-> i] ] :
              ty \in [1..k -> SubjectTypes] } : k \in 0..MaxNotifs }

InitRunVars ==
    /\ pc = "user"
    /\ upstream \in [orgs : 0..MaxOrgs, notifications : NotificationLists]
    /\ orgsLeft = 0
    /\ tasks = <<>>
    /\ completed = <<>>
    /\ fetchLog = <<>>
    /\ rcLog = <<>>
    /\ formatted = NoObj
    /\ printed = FALSE
    /\ exitStatus = -1

\* SystemExit(returncode) leaves amain and the event loop: the tasks that
\* have not returned are cancelled and the process exits
Abort(returncode) ==
    /\ pc' = "exit"
    /\ exitStatus' = SystemExit(returncode)
    /\ tasks' = [ i \in 1..Len(tasks) |->
                    IF tasks[i].state = "done" THEN tasks[i]
                    ELSE [tasks[i] EXCEPT !.state = "cancelled"] ]

\* _gh_user: _gh_api("user")
FetchUser ==
    /\ pc = "user"
    /\ \E rc \in ReturnCodesOfChild :
           /\ rcLog' = Append(rcLog, rc)
           /\ IF Failed(rc)
              THEN Abort(rc)
              ELSE pc' = "orgs" /\ UNCHANGED <<tasks, exitStatus>>
    /\ UNCHANGED <<upstream, orgsLeft, completed, fetchLog, formatted, printed>>
    /\ UNCHANGED <<varsPR, varsUrl, varsRev, varsPages>>

\* _gh_user: _gh_api("graphql", ...) for the organisations
FetchOrgs ==
    /\ pc = "orgs"
    /\ \E rc \in ReturnCodesOfChild :
           /\ rcLog' = Append(rcLog, rc)
           /\ IF Failed(rc)
              THEN Abort(rc) /\ UNCHANGED orgsLeft
              ELSE /\ orgsLeft' = upstream.orgs
                   /\ pc' = IF upstream.orgs = 0 THEN "notifications" ELSE "teams"
                   /\ UNCHANGED <<tasks, exitStatus>>
    /\ UNCHANGED <<upstream, completed, fetchLog, formatted, printed>>
    /\ UNCHANGED <<varsPR, varsUrl, varsRev, varsPages>>

\* _gh_user: _gh_api("graphql", ...) for the teams of one organisation
FetchTeams ==
    /\ pc = "teams"
    /\ \E rc \in ReturnCodesOfChild :
           /\ rcLog' = Append(rcLog, rc)
           /\ IF Failed(rc)
              THEN Abort(rc) /\ UNCHANGED orgsLeft
              ELSE /\ orgsLeft' = orgsLeft - 1
                   /\ pc' = IF orgsLeft = 1 THEN "notifications" ELSE "teams"
                   /\ UNCHANGED <<tasks, exitStatus>>
    /\ UNCHANGED <<upstream, completed, fetchLog, formatted, printed>>
    /\ UNCHANGED <<varsPR, varsUrl, varsRev, varsPages>>

\* amain: _gh_api("notifications", paginate=True), the filter on the subject
\* type, and the tasks asyncio.gather creates
FetchNotifications ==
    /\ pc = "notifications"
    /\ \E rc \in ReturnCodesOfChild :
           /\ rcLog' = Append(rcLog, rc)
           /\ IF Failed(rc)
              THEN Abort(rc)
              ELSE /\ tasks' = GatherTasks(upstream.notifications)
                   /\ pc' = "gather"
                   /\ UNCHANGED exitStatus
    /\ UNCHANGED <<upstream, orgsLeft, completed, fetchLog, formatted, printed>>
    /\ UNCHANGED <<varsPR, varsUrl, varsRev, varsPages>>

\* _gh_api_async: asyncio.create_subprocess_exec("gh", "api", url)
TaskSpawn ==
    /\ pc = "gather"
    /\ \E i \in 1..Len(tasks) :
           /\ tasks[i].state = "pending"
           /\ tasks' = [tasks EXCEPT ![i].state = "waiting"]
           /\ fetchLog' = Append(fetchLog, tasks[i].pr_url)
    /\ UNCHANGED <<pc, upstream, orgsLeft, completed, rcLog, formatted,
                   printed, exitStatus>>
    /\ UNCHANGED <<varsPR, varsUrl, varsRev, varsPages>>

\* _gh_api_async from `await proc.wait()` on, _gh_pr and _gh_notif: the
\* child of task i ends, in any order among the running ones
TaskFinish ==
    /\ pc = "gather"
    /\ \E i \in 1..Len(tasks), rc \in ReturnCodesOfChild :
           /\ tasks[i].state = "waiting"
           /\ rcLog' = Append(rcLog, rc)
           /\ IF Failed(rc)
              THEN Abort(rc) /\ UNCHANGED completed
              ELSE /\ tasks' = [tasks EXCEPT
                        ![i].state = "done",
                        ![i].result = Obj(Notification(tasks[i].id, tasks[i].pr_url))]
                   /\ completed' = Append(completed, i)
                   /\ UNCHANGED <<pc, exitStatus>>
    /\ UNCHANGED <<upstream, orgsLeft, fetchLog, formatted, printed>>
    /\ UNCHANGED <<varsPR, varsUrl, varsRev, varsPages>>

\* amain: asyncio.gather returns and formatter.format(notifications) is called
Format ==
    /\ pc = "gather"
    /\ \A i \in 1..Len(tasks) : tasks[i].state = "done"
    /\ formatted' = Obj(GatherResults(tasks, completed))
    /\ pc' = "print"
    /\ UNCHANGED <<upstream, orgsLeft, tasks, completed, fetchLog, rcLog,
                   printed, exitStatus>>
    /\ UNCHANGED <<varsPR, varsUrl, varsRev, varsPages>>

\* amain: printer.print(...) and return 0
CallPrinter ==
    /\ pc = "print"
    /\ printed' = TRUE
    /\ exitStatus' = 0
    /\ pc' = "done"
    /\ UNCHANGED <<upstream, orgsLeft, tasks, completed, fetchLog, rcLog,
                   formatted>>
    /\ UNCHANGED <<varsPR, varsUrl, varsRev, varsPages>>

InitRun == InitRunVars /\ IdlePR /\ IdleUrl /\ IdleRev /\ IdlePages

NextRun ==
    \/ FetchUser
    \/ FetchOrgs
    \/ FetchTeams
    \/ FetchNotifications
    \/ TaskSpawn
    \/ TaskFinish
    \/ Format
    \/ CallPrinter

SpecRun == InitRun /\ [][NextRun]_vars

(***************************************************************************)
(* Properties of SpecRun                                                   *)
(***************************************************************************)

\* the positions of the fetched list whose subject is a pull request
PRPositions ==
    { i \in 1..Len(upstream.notifications) :
          upstream.notifications[i].subject_type = "PullRequest" }

\* the number of elements of q equal to x
Count(q, x) == Cardinality({ k \in 1..Len(q) : q[k] = x })

\* out holds one Notification per pull-request item, in list order
IsPullRequestSubsequence(out) ==
    /\ Len(out) = Cardinality(PRPositions)
    /\ \A k \in 1..Len(out) :
           /\ out[k].id \in PRPositions
           /\ out[k].pr.url = upstream.notifications[out[k].id].subject_url
    /\ \A k \in 1..(Len(out) - 1) : out[k].id < out[k + 1].id

\* C1: whatever the completion order of the PR fetches, the formatter gets
\* exactly the pull-request items of the fetched list, in list order, one
\* Notification each, and each PR was fetched exactly once.
C1_FormatterGetsPullRequestsInListOrder ==
    formatted # NoObj =>
        /\ IsPullRequestSubsequence(formatted[1])
        /\ \A i \in 1..Len(upstream.notifications) :
               Count(fetchLog, upstream.notifications[i].subject_url)
                   = IF i \in PRPositions THEN 1 ELSE 0

\* two pull requests next to an item of another type, the fetch of the
\* second pull request completing before the fetch of the first
C1_Witness ==
    /\ formatted # NoObj
    /\ Len(formatted[1]) >= 2
    /\ Len(upstream.notifications) > Len(formatted[1])
    /\ completed[1] > completed[2]

AFetchFailed == \E k \in 1..Len(rcLog) : rcLog[k] # 0

\* C2: once a fetch has failed the run has ended with a non-zero exit status
\* and nothing was formatted or printed; exit status 0 comes only after the
\* printer was called, every fetch having succeeded.
C2_FailFast ==
    /\ AFetchFailed =>
           /\ pc = "exit"
           /\ exitStatus \in 1..255
           /\ ~printed
           /\ formatted = NoObj
    /\ exitStatus = 0 => (printed /\ ~AFetchFailed)
    /\ printed => ~AFetchFailed

\* a PR fetch fails by a signal while another has succeeded and a third is
\* still running
C2_Witness ==
    /\ pc = "exit"
    /\ exitStatus = 247
    /\ \E i, j \in 1..Len(tasks) :
           tasks[i].state = "done" /\ tasks[j].state = "cancelled"

(***************************************************************************)
(* SpecPR: a payload is parsed, classified and given its markers           *)
(***************************************************************************)

\* values of data["state"]: the two documented ones and one that is not
States == {"open", "closed", "locked"}

\* values of data["mergeable_state"]: the six the code names and two
\* further ones
MergeableStates ==
    {"clean", "behind", "blocked", "dirty", "unknown", "unstable",
     "has_hooks", "draft"}

Payloads ==
    [ user_login      : {"me", "bob"},
      state           : States,
      draft           : BOOLEAN,
      merged          : BOOLEAN,
      mergeable_state : MergeableStates,
      auto_merge      : {"null", "object"} ]

InitPRVars ==
    /\ data \in Payloads
    /\ pr = NoObj
    /\ statusRes = None
    /\ mergeRes = None
    /\ consoleStatus = None
    /\ htmlIcons = NoObj

\* _gh_pr: PR.from_json(pr_data)
FromJson ==
    /\ pr = NoObj
    /\ pr' = Obj(PRfrom_json(data))
    /\ UNCHANGED <<data, statusRes, mergeRes, consoleStatus, htmlIcons, varsUrl, varsRev, varsPages, varsRun>>

\* evaluation of the property pr.status
EvalStatus ==
    /\ pr # NoObj
    /\ statusRes = None
    /\ statusRes' = PRstatus(pr[1])
    /\ UNCHANGED <<data, pr, mergeRes, consoleStatus, htmlIcons, varsUrl, varsRev, varsPages, varsRun>>

\* evaluation of the property pr.merge_status
EvalMergeStatus ==
    /\ pr # NoObj
    /\ mergeRes = None
    /\ mergeRes' = PRmerge_status(pr[1])
    /\ UNCHANGED <<data, pr, statusRes, consoleStatus, htmlIcons, varsUrl, varsRev, varsPages, varsRun>>

\* ConsoleFormatter._format_notification, status part
ConsoleFormat ==
    /\ pr # NoObj
    /\ consoleStatus = None
    /\ consoleStatus' = ConsoleFormatStatus(pr[1])
    /\ UNCHANGED <<data, pr, statusRes, mergeRes, htmlIcons, varsUrl, varsRev, varsPages, varsRun>>

\* HtmlFormatter._icons
HtmlFormat ==
    /\ pr # NoObj
    /\ htmlIcons = NoObj
    /\ htmlIcons' = Obj(HtmlIconsOf(pr[1], ViewerLogin))
    /\ UNCHANGED <<data, pr, statusRes, mergeRes, consoleStatus, varsUrl, varsRev, varsPages, varsRun>>

InitPR == InitPRVars /\ IdleUrl /\ IdleRev /\ IdlePages /\ IdleRun

NextPR ==
    \/ FromJson
    \/ EvalStatus
    \/ EvalMergeStatus
    \/ ConsoleFormat
    \/ HtmlFormat

SpecPR == InitPR /\ [][NextPR]_vars

(***************************************************************************)
(* Properties of SpecPR                                                    *)
(***************************************************************************)

\* the mergeable_state values the data model names
KnownMergeableStates ==
    {"clean", "behind", "blocked", "dirty", "unknown", "unstable"}

\* C3: PR.merge_status raises for every mergeable_state outside the known
\* set, whatever the auto-merge flag; it never returns a PRMergeStatus for
\* such a value.
C3_UnknownMergeableStateRaises ==
    (mergeRes # None /\ pr[1].mergeable_state \notin KnownMergeableStates)
        => mergeRes = ValueError

\* C4: for a mergeable_state of the known set, PR.merge_status is CLEAN
\* exactly when it is clean, AUTO_MERGE exactly when the payload carries an
\* auto-merge object and the state is not clean, UNKNOWN in the other cases.
C4_MergeStatusTable ==
    (mergeRes # None /\ data.mergeable_state \in KnownMergeableStates) =>
        LET clean == data.mergeable_state = "clean"
            auto  == data.auto_merge = "object"
        IN  /\ mergeRes \in PRMergeStatus
            /\ mergeRes = "CLEAN" <=> clean
            /\ mergeRes = "AUTO_MERGE" <=> (auto /\ ~clean)
            /\ mergeRes = "UNKNOWN" <=> (~auto /\ ~clean)

C4_Witness ==
    /\ mergeRes = "AUTO_MERGE"
    /\ data.mergeable_state = "blocked"
    /\ data.auto_merge = "object"

\* C5: PR.status is DRAFT for open and draft, OPEN for open and not draft,
\* MERGED for closed and merged, CLOSED for closed and not merged, and
\* raises for every other state value.
C5_StatusTable ==
    statusRes # None =>
        /\ (data.state = "open" /\ data.draft) => statusRes = "DRAFT"
        /\ (data.state = "open" /\ ~data.draft) => statusRes = "OPEN"
        /\ (data.state = "closed" /\ data.merged) => statusRes = "MERGED"
        /\ (data.state = "closed" /\ ~data.merged) => statusRes = "CLOSED"
        /\ data.state \notin {"open", "closed"} => statusRes = ValueError

C5_Witness ==
    \/ statusRes = "MERGED" /\ data.state = "closed" /\ data.merged
    \/ statusRes = ValueError /\ data.state = "locked"

\* a PR was classified and given a marker by a formatter
Rendered ==
    \/ consoleStatus \notin {None, ValueError}
    \/ htmlIcons # NoObj /\ ~htmlIcons[1].raised

\* C6: every PR that PR.from_json builds and that is rendered has a state of
\* open or closed and, when open, is not merged.
C6_RenderedPRSatisfiesInvariant ==
    Rendered =>
        /\ pr[1].state \in {"open", "closed"}
        /\ pr[1].state = "open" => ~pr[1].merged

\* the rows of the status-marker table
MarkerRows == {"check", "ff", "none", "draft", "merged", "closed"}

\* row of the table for a status and a merge status
MarkerRow(st, ms) ==
    CASE st = "OPEN" /\ ms = "CLEAN"      -> "check"
      [] st = "OPEN" /\ ms = "AUTO_MERGE" -> "ff"
      [] st = "OPEN" /\ ms = "UNKNOWN"    -> "none"
      [] st = "DRAFT"                     -> "draft"
      [] st = "MERGED"                    -> "merged"
      [] st = "CLOSED"                    -> "closed"

ConsoleMarker ==
    [ check |-> ConsoleCheck, ff |-> ConsoleFF, none |-> ConsoleNone,
      draft |-> ConsoleDraft, merged |-> ConsoleMerged,
      closed |-> ConsoleClosed ]

HtmlMarker ==
    [ check |-> <<HtmlCheck>>, ff |-> <<HtmlFF>>, none |-> <<>>,
      draft |-> <<HtmlDraft>>, merged |-> <<HtmlMerged>>,
      closed |-> <<HtmlClosed>> ]

IsStatusIcon(i) == i # HtmlAuthor

\* the payload is classified: its state is open or closed and, for an open
\* non-draft PR, merge_status returns
Classified ==
    /\ data.state \in {"open", "closed"}
    /\ (data.state = "open" /\ ~data.draft) =>
           \/ data.mergeable_state \in KnownMergeableStates
           \/ data.auto_merge = "object"

\* status and merge status as the data model defines them from the payload
TableStatus ==
    IF data.state = "open"
    THEN IF data.draft THEN "DRAFT" ELSE "OPEN"
    ELSE IF data.merged THEN "MERGED" ELSE "CLOSED"

TableMergeStatus ==
    IF data.mergeable_state = "clean" THEN "CLEAN"
    ELSE IF data.auto_merge = "object" THEN "AUTO_MERGE"
    ELSE "UNKNOWN"

\* C9: both formatters pick the status marker by the table: check /
\* fast-forward / nothing for an OPEN PR by merge status, and the draft,
\* merged or closed marker by status alone for every mergeable_state and
\* auto-merge value; at most one status marker is emitted.
C9_StatusMarkerTable ==
    /\ (consoleStatus # None /\ Classified) =>
           consoleStatus = ConsoleMarker[MarkerRow(TableStatus, TableMergeStatus)]
    /\ (htmlIcons # NoObj /\ Classified) =>
           /\ ~htmlIcons[1].raised
           /\ SelectSeq(htmlIcons[1].icons, IsStatusIcon)
                  = HtmlMarker[MarkerRow(TableStatus, TableMergeStatus)]
    /\ htmlIcons # NoObj =>
           Len(SelectSeq(htmlIcons[1].icons, IsStatusIcon)) <= 1
    /\ (consoleStatus # None /\ ~Classified) => consoleStatus = ValueError
    /\ (htmlIcons # NoObj /\ ~Classified) => htmlIcons[1].raised

C9_Witness ==
    /\ consoleStatus = ConsoleMerged
    /\ htmlIcons # NoObj
    /\ htmlIcons[1].icons = <<HtmlMerged, HtmlAuthor>>
    /\ data.mergeable_state = "has_hooks"
    /\ data.auto_merge = "object"

====
